---- MODULE Spec2Model ----
(***************************************************************************)
(* Model of the NESO generation-mix pipeline: the tracked pipeline run     *)
(* (run_history.py wrapping run.py), the Transformer stages that decide    *)
(* which rows become canonical (transform.py), and the batched upsert of   *)
(* the Loader (load.py) against the two tables of db/models.py.            *)
(*                                                                         *)
(* Spec      the pipeline: up to MaxRuns tracked runs that may overlap,    *)
(*           an upstream that publishes new records, a store.              *)
(* FairSpec  Spec with weak fairness on the steps of a started run.        *)
(* LoadSpec  the Loader alone: upsert_generation_data called twice with    *)
(*           the same table on an arbitrary store.                         *)
(***************************************************************************)
EXTENDS Integers, Sequences, FiniteSets, TLC

\* ------------------------------------------------------------------ bounds
\* Number of records the upstream publishes (their _id is 1..MaxUpstream).
MaxUpstream == 3
\* Number of tracked pipeline invocations (Run History ids 1..MaxRuns).
MaxRuns == 2
\* len(df.columns) of the canonical table handed to the Loader; wide enough
\* that a table of a few rows needs more than one statement.
NumCols == 400
\* Largest _id of a row in LoadSpec's stores and tables.
MaxLoadId == 3
\* Largest _id and largest number of rows of a batch in DedupSpec.
MaxDedupId == 3
MaxDedupRows == 3
\* Largest number of raw records of a batch in TransformSpec.
MaxRawRows == 2
\* Largest number of rows of a batch in PercSpec and in MissingSpec.
MaxPercRows == 2
MaxMissingRows == 2
\* Largest number of raw records of a batch in QualitySpec.
MaxQualityRows == 3

\* Number of records the upstream publishes in FetchSpec, and the largest
\* batch_size (records per page) of a fetch.
MaxFetchUp == 4
MaxPage == 2
\* Largest number of rows of a table in BatchSpec, the table of 2000 rows
\* and 20 columns aside.
MaxTableRows == 6

\* ------------------------------------------------------------- constants
\* max_tries of the backoff decorator of _get_request.
MaxTries == 5
\* SQLite's bound-parameter limit, hard-coded in floor(999 / num_cols).
SqliteMaxVars == 999

\* SQL NULL / Python None / polars null in an integer, float or datetime column.
NULL == 0 - 1
\* SQL NULL in the text column error_message.
NullMsg == "<null>"

\* ------------------------------------------------------------ data model
\* Upstream DATETIME strings in the format "%Y-%m-%dT%H:%M:%S"; position k
\* in Stamps parses to the timestamp k.
Stamps == <<"2025-01-01T00:00:00", "2025-01-01T00:30:00", "2025-01-01T01:00:00">>
\* What the upstream may send as DATETIME: the well-formed stamps and one
\* string the format does not accept.
RawDatetimes == {Stamps[k] : k \in 1..Len(Stamps)} \cup {"not-a-date"}
\* What the upstream of the pipeline sends as GENERATION, all of it wind.
UpstreamNumbers == {5}

\* Parsed timestamps.
Datetimes == 1..Len(Stamps)

\* Columns of table generation: the key columns, the total and one of the 11
\* fuel columns with its percentage column; _validate_perc_consistency
\* treats each fuel column alone and in the same way.
ModelCols == {"_id", "DATETIME", "GENERATION", "WIND", "WIND_perc"}
\* numeric_cols, cast to Float64.
FloatCols == ModelCols \ {"_id", "DATETIME"}
\* fuel_cols, two of the 11: table generation of the model has the columns
\* of WIND only, so SOLAR is a fuel column whose percentage column a batch
\* may lack.
FuelCols == {"SOLAR", "WIND"}
\* perc_col = f"{col}_perc"
PercCol(col) == col \o "_perc"

\* Float64 values: the non-negative integers the model computes with, and
\* above them inf and NaN; polars orders floats totally, NaN above inf.
Inf == 1000 * 1000
NaN == Inf + 1
\* tolerance: float = 1.0
Tolerance == 1

Max(S) == CHOOSE x \in S : \A y \in S : y <= x

Range(s) == {s[k] : k \in 1..Len(s)}

\* ----------------------------------------------------------- Transformer
\* str.strptime(pl.Datetime, format, strict=False): a string in the format
\* becomes its timestamp, anything else becomes null.
ParseDatetime(s) ==
    IF \E k \in 1..Len(Stamps) : Stamps[k] = s
    THEN CHOOSE k \in 1..Len(Stamps) : Stamps[k] = s
    ELSE NULL

\* _align_schema: every expected column the batch lacks is added as nulls,
\* every other column is dropped.
AlignSchema(records) ==
    [k \in 1..Len(records) |->
        [c \in ModelCols |->
            IF c \in DOMAIN records[k] THEN records[k][c] ELSE NULL]]

\* DataFrame.sort(col), ascending with nulls first; rows with equal keys keep
\* their relative order (one of the orders polars may leave them in; any
\* other is the order this sort gives another arrangement of the rows).
RECURSIVE SortInsert(_, _, _)
SortInsert(s, r, col) ==
    IF s = <<>> THEN <<r>>
    ELSE IF r[col] < s[Len(s)][col]
         THEN Append(SortInsert(SubSeq(s, 1, Len(s) - 1), r, col), s[Len(s)])
         ELSE Append(s, r)

RECURSIVE SortBy(_, _)
SortBy(s, col) ==
    IF s = <<>> THEN <<>>
    ELSE SortInsert(SortBy(SubSeq(s, 1, Len(s) - 1), col), s[Len(s)], col)

\* The rows of s at the positions in idx, in their order in s.
RECURSIVE Pick(_, _)
Pick(s, idx) ==
    IF s = <<>> THEN <<>>
    ELSE LET rest == Pick(SubSeq(s, 1, Len(s) - 1), idx)
         IN  IF Len(s) \in idx THEN Append(rest, s[Len(s)]) ELSE rest

\* DataFrame.unique(subset=[col], keep="last"): of the rows sharing a value
\* of col only the last one in s survives.
UniqueKeepLast(s, col) ==
    Pick(s, {k \in 1..Len(s) : \A j \in (k + 1)..Len(s) : s[j][col] # s[k][col]})

\* _parse_and_cast: parse DATETIME, sort by it, cast the numeric columns
\* (numbers and nulls cast to themselves).
ParseAndCast(records) ==
    SortBy([k \in 1..Len(records) |->
               [records[k] EXCEPT !.DATETIME = ParseDatetime(@)]], "DATETIME")

\* pl.col(col) / pl.col("GENERATION") * 100 of one row.
CalcPerc(absolute, total) ==
    IF absolute = NULL \/ total = NULL THEN NULL
    ELSE IF total = 0 THEN (IF absolute = 0 THEN NaN ELSE Inf)
    ELSE (absolute * 100) \div total

\* (calc - perc).abs() of one row.
PercDiff(calc, perc) ==
    IF calc = NULL \/ perc = NULL THEN NULL
    ELSE IF calc = NaN \/ perc = NaN THEN NaN
    ELSE IF calc = Inf /\ perc = Inf THEN NaN
    ELSE IF calc = Inf \/ perc = Inf THEN Inf
    ELSE IF calc >= perc THEN calc - perc ELSE perc - calc

\* Faulty variant: a difference equal to the tolerance counts as well.
InconsistentAtTolerance(r, col) ==
    LET diff == PercDiff(CalcPerc(r[col], r.GENERATION), r[PercCol(col)])
    IN  diff # NULL /\ diff >= Tolerance

\* pl.col(diff) > tolerance: null is not true.
Inconsistent(r, col) ==
    LET diff == PercDiff(CalcPerc(r[col], r.GENERATION), r[PercCol(col)])
    IN  diff # NULL /\ diff > Tolerance

\* df.columns
Columns(df) == IF df = <<>> THEN {} ELSE DOMAIN df[1]

\* The loop body of _validate_perc_consistency for one fuel column: the
\* calculated value replaces the raw one where they are inconsistent.
ReconcileCol(df, col) ==
    IF PercCol(col) \notin Columns(df) THEN df
    ELSE [k \in 1..Len(df) |->
             IF Inconsistent(df[k], col)
             THEN [df[k] EXCEPT ![PercCol(col)] = CalcPerc(df[k][col], df[k].GENERATION)]
             ELSE df[k]]

\* _validate_perc_consistency, the table it returns: the loop over fuel_cols.
RECURSIVE ReconcileCols(_, _)
ReconcileCols(df, cols) ==
    IF cols = {} THEN df
    ELSE LET col == CHOOSE c \in cols : TRUE
         IN  ReconcileCols(ReconcileCol(df, col), cols \ {col})

PercConsistency(df) == ReconcileCols(df, FuelCols)

\* bad_rows_count of one fuel column.
BadRowsCount(df, col) ==
    IF PercCol(col) \notin Columns(df) THEN 0
    ELSE Cardinality({k \in 1..Len(df) : Inconsistent(df[k], col)})

\* total_invalid_count after the loop over the fuel columns in cols.
RECURSIVE InvalidCountOver(_, _)
InvalidCountOver(df, cols) ==
    IF cols = {} THEN 0
    ELSE LET col == CHOOSE c \in cols : TRUE
         IN  BadRowsCount(df, col)
                 + InvalidCountOver(ReconcileCol(df, col), cols \ {col})

\* _validate_perc_consistency, the count it returns.
InvalidPercCount(df) == InvalidCountOver(df, FuelCols)

\* pl.any_horizontal(pl.all().is_null()) of one row.
HasNull(r) == \E c \in DOMAIN r : r[c] = NULL

\* Number of rows with a null in any column.
NullRowCount(df) == Cardinality({k \in 1..Len(df) : HasNull(df[k])})

\* Faulty variant: every row with a null is dropped.
MissingValuesDropAny(df) ==
    Pick(df, {k \in 1..Len(df) : ~HasNull(df[k])})

\* _validate_missing_values, the table it returns: when any row has a null,
\* rows with a null _id or DATETIME are dropped and null floats become 0.0.
MissingValues(df) ==
    IF NullRowCount(df) > 0
    THEN LET kept == Pick(df, {k \in 1..Len(df) :
                                  df[k]._id # NULL /\ df[k].DATETIME # NULL})
         IN  [k \in 1..Len(kept) |->
                 [c \in DOMAIN kept[k] |->
                     IF c \in FloatCols /\ kept[k][c] = NULL THEN 0
                     ELSE kept[k][c]]]
    ELSE df

\* Faulty variant: the table is not sorted by _id before the DATETIME pass.
DeduplicateUnsorted(df) ==
    UniqueKeepLast(UniqueKeepLast(SortBy(df, "DATETIME"), "_id"), "DATETIME")

\* Faulty variant: unique(..., keep="first") in both passes.
DeduplicateKeepFirst(df) ==
    LET First(s, col) ==
            Pick(s, {k \in 1..Len(s) :
                        \A j \in 1..(k - 1) : s[j][col] # s[k][col]})
    IN  First(SortBy(First(SortBy(df, "DATETIME"), "_id"), "_id"), "DATETIME")

\* Faulty variant: only the _id pass is made.
DeduplicateIdOnly(df) ==
    SortBy(UniqueKeepLast(SortBy(df, "DATETIME"), "_id"), "_id")

\* _deduplicate, the table it returns.
Deduplicate(df) ==
    LET byId == UniqueKeepLast(SortBy(df, "DATETIME"), "_id")
    IN  UniqueKeepLast(SortBy(byId, "_id"), "DATETIME")

\* _deduplicate, the count it returns: removed = before - df.height.
DedupRemoved(df) == Len(df) - Len(Deduplicate(df))

\* transform_records: the canonical table of a batch of raw records.
TransformRecords(records) ==
    IF records = <<>> THEN <<>>
    ELSE Deduplicate(MissingValues(PercConsistency(
             ParseAndCast(AlignSchema(records)))))

\* The tables between the stages of transform_records.
Parsed(records) == ParseAndCast(AlignSchema(records))
Reconciled(records) == PercConsistency(Parsed(records))
Filled(records) == MissingValues(Reconciled(records))

\* One line of the issues list, appended when its count is positive.
IssueLine(label, count) == IF count > 0 THEN <<(<<label, count>>)>> ELSE <<>>

\* issues, after the three validations.
Issues(records) ==
    IssueLine("Inconsistent mix % ", InvalidPercCount(Parsed(records)))
        \o IssueLine("Rows with missing data",
                     NullRowCount(Reconciled(records)))
        \o IssueLine("Duplicate/overlapping rows",
                     DedupRemoved(Filled(records)))

\* Faulty variant: the dropped count is the sum of the issue counts.
GenerateQualitySummaryIssueSum(total_raw, total_clean, issues) ==
    LET RECURSIVE Sum(_)
        Sum(s) == IF s = <<>> THEN 0 ELSE s[1][2] + Sum(Tail(s))
    IN  <<(<<"Total raw records", total_raw>>),
          (<<"Valid cleaned records", total_clean>>),
          (<<"Dropped / invalid records", Sum(issues)>>)>> \o issues

\* _generate_quality_summary: the rows (Check, Count) of the summary.
GenerateQualitySummary(total_raw, total_clean, issues) ==
    <<(<<"Total raw records", total_raw>>),
      (<<"Valid cleaned records", total_clean>>),
      (<<"Dropped / invalid records", total_raw - total_clean>>)>> \o issues

\* The quality summary transform_records logs for a batch; an empty batch
\* returns before any is made.
QualitySummary(records) ==
    IF records = <<>> THEN <<>>
    ELSE GenerateQualitySummary(Len(records), Len(TransformRecords(records)),
                                Issues(records))

\* Faulty variant: the record at the cursor is fetched again.
FetchNesoDataInclusive(up, last_id) ==
    SelectSeq(up, LAMBDA r : r._id >= last_id)

\* ---------------------------------------------------------------- Fetcher
\* fetch_neso_data(last_id) against an upstream whose records are in
\* ascending _id order: every record with _id > last_id, ascending.
FetchNesoData(up, last_id) == SelectSeq(up, LAMBDA r : r._id > last_id)

\* ----------------------------------------------------------------- Loader
\* Faulty variant: the quotient rounded up.
BatchSizeCeil(num_cols) == (SqliteMaxVars + num_cols - 1) \div num_cols

\* batch_size = floor(999 / num_cols)
BatchSize(num_cols) == SqliteMaxVars \div num_cols

\* Faulty variant: ON CONFLICT DO UPDATE SET GENERATION = GENERATION + excluded.GENERATION.
UpsertRowAdding(table, r) ==
    IF \E s \in table : s._id = r._id
    THEN {IF s._id = r._id
          THEN [s EXCEPT !.DATETIME = r.DATETIME,
                         !.GENERATION = s.GENERATION + r.GENERATION,
                         !.WIND = r.WIND, !.WIND_perc = r.WIND_perc]
          ELSE s : s \in table}
    ELSE table \cup {r}

\* Faulty variant: INSERT OR REPLACE on a table with a unique DATETIME, which
\* deletes every row in conflict before it inserts.
UpsertRowReplacing(table, r) ==
    {s \in table : s._id # r._id /\ s.DATETIME # r.DATETIME} \cup {r}

\* Faulty variant: ON CONFLICT DO NOTHING.
UpsertRowKeeping(table, r) ==
    IF \E s \in table : s._id = r._id THEN table ELSE table \cup {r}

\* One row of INSERT ... ON CONFLICT (_id) DO UPDATE SET c = excluded.c for
\* every column c other than _id.
UpsertRow(table, r) ==
    IF \E s \in table : s._id = r._id
    THEN {IF s._id = r._id
          THEN [s EXCEPT !.DATETIME = r.DATETIME, !.GENERATION = r.GENERATION,
                         !.WIND = r.WIND, !.WIND_perc = r.WIND_perc]
          ELSE s : s \in table}
    ELSE table \cup {r}

\* One statement: the rows of the chunk, in order.
RECURSIVE UpsertStmt(_, _)
UpsertStmt(table, chunk) ==
    IF chunk = <<>> THEN table
    ELSE UpsertRow(UpsertStmt(table, SubSeq(chunk, 1, Len(chunk) - 1)),
                   chunk[Len(chunk)])

\* df.slice(i, batch_size): at most batch_size rows from 0-based offset i.
Slice(df, i, n) ==
    SubSeq(df, i + 1, IF i + n < Len(df) THEN i + n ELSE Len(df))

\* upsert_generation_data run to completion: every chunk in turn.
RECURSIVE UpsertFrom(_, _, _)
UpsertFrom(table, df, i) ==
    IF i >= Len(df) THEN table
    ELSE UpsertFrom(UpsertStmt(table, Slice(df, i, BatchSize(NumCols))),
                    df, i + BatchSize(NumCols))

\* SELECT _id ... ORDER BY _id DESC LIMIT 1, or 0 for an empty table.
LastId(table) == IF table = {} THEN 0 ELSE Max({s._id : s \in table})

\* ------------------------------------------------------------------ state
VARIABLES
    upstream,    \* the upstream resource: raw records in ascending _id order
    generation,  \* table generation: the committed rows
    history,     \* table pipeline_run_history: row k has id k
    run,         \* per invocation: position and locals of wrapper/run_pipeline
    clock,       \* the instant the last timestamp was taken at
    ld,          \* LoadSpec: the Loader called on its own
    ft,          \* FetchSpec: fetch_neso_data called on its own
    tf,          \* TransformSpec, DedupSpec: the Transformer called on its own
    bt,          \* BatchSpec: the Loader's loop over a table of any width
    dash         \* DashSpec: a dashboard session and its st.session_state

vars == <<upstream, generation, history, run, clock, ld, ft, tf, bt, dash>>

Runs == 1..MaxRuns

\* Exception messages, str(e).
FetchError == "NESO API returned 'success=False'"
TransformError == "could not build DataFrame"
StoreError == "database is locked"

\* An invocation not made yet; success .. error_message hold the initial
\* values of the wrapper's locals.
IdleRun ==
    [pc |-> "idle", last_id |-> NULL, records |-> <<>>, df |-> <<>>, i |-> 0,
     calls |-> {}, success |-> 0, total_fetched |-> 0, valid_records |-> 0,
     last_fetched_id |-> NULL, error_message |-> NullMsg, exc |-> NullMsg,
     returned |-> FALSE, raised |-> NullMsg, gen0 |-> {}, upLen |-> 0]

\* LoadSpec is not running.
LdOff == [phase |-> "off", call |-> 0, df |-> <<>>, i |-> 0, before |-> {},
          after1 |-> {}, raised |-> NullMsg]
\* FetchSpec, TransformSpec and DedupSpec, BatchSpec are not running.
FtOff ==
    [pc |-> "off", last_id |-> 0, batch_size |-> 1, max_records |-> NULL,
     latest_id |-> 0, all_records |-> <<>>, total_fetched |-> 0, tries |-> 0,
     pages |-> <<>>, attempts |-> <<>>, cursors |-> <<>>, result |-> <<>>,
     exc |-> NullMsg]
TfOff == [pc |-> "off", pass |-> 0, records |-> <<>>, df |-> <<>>,
          out |-> <<>>, first |-> <<>>, count |-> 0, summary |-> <<>>]
BtOff == [pc |-> "off", df |-> <<>>, num_cols |-> 1, i |-> 0, stmts |-> <<>>]
\* DashSpec is not running: no dashboard session. In a session, has says
\* whether st.session_state holds "gen_df"; data_version is None (NULL)
\* until it is set.
DashOff ==
    [pc |-> "off", impl |-> "utils", has |-> FALSE, gen_df |-> {},
     data_version |-> NULL, new |-> NULL, out |-> {}, exc |-> NullMsg]

Init ==
    /\ upstream = <<>>
    /\ generation = {}
    /\ history = <<>>
    /\ run = [r \in Runs |-> IdleRun]
    /\ clock = 0
    /\ dash = DashOff
    /\ ld = LdOff
    /\ ft = FtOff
    /\ tf = TfOff
    /\ bt = BtOff

\* --------------------------------------------------------------- upstream
\* The upstream resource appends a record; its _id is the next integer.
Publish ==
    /\ Len(upstream) < MaxUpstream
    /\ \E d \in RawDatetimes, g \in UpstreamNumbers :
          upstream' = Append(upstream, [_id |-> Len(upstream) + 1,
                                        DATETIME |-> d, GENERATION |-> g,
                                        WIND |-> g, WIND_perc |-> 100])
    /\ UNCHANGED <<generation, history, run, clock, ld, ft, tf, bt, dash>>

\* ------------------------------------------------------------ Run Tracker
\* PipelineRunHistory(run_start=now) as inserted: the columns not given take
\* their defaults (run_stop func.now(), counts 0, success False).
NewRunRow(now) ==
    [run_start |-> now, run_stop |-> now, last_fetched_id |-> NULL,
     total_fetched |-> 0, valid_records |-> 0, success |-> 0,
     error_message |-> NullMsg]

\* wrapper, up to the call of func: insert the row, commit, refresh.
Start(r) ==
    /\ run[r].pc = "idle"
    /\ Len(history) = r - 1
    /\ clock' = clock + 1
    /\ history' = Append(history, NewRunRow(clock'))
    /\ run' = [run EXCEPT ![r].pc = "cursor"]
    /\ UNCHANGED <<upstream, generation, ld, ft, tf, bt, dash>>

\* Faulty variant: the stop time is set on the success path only.
FinalRowStopOnSuccess(row, loc, now) ==
    [row EXCEPT !.run_stop = IF loc.success = 1 THEN now ELSE @,
                !.last_fetched_id = loc.last_fetched_id,
                !.total_fetched = loc.total_fetched,
                !.valid_records = loc.valid_records,
                !.success = loc.success,
                !.error_message = loc.error_message]

\* The finally block's assignments to the row.
FinalRow(row, loc, now) ==
    [row EXCEPT !.run_stop = now,
                !.last_fetched_id = loc.last_fetched_id,
                !.total_fetched = loc.total_fetched,
                !.valid_records = loc.valid_records,
                !.success = loc.success,
                !.error_message = loc.error_message]

\* Faulty variant: the except block has no `raise`.
ReraisedNever(loc) == NullMsg

\* What leaves the wrapper after the finally block: the exception caught by
\* `except` is re-raised.
Reraised(loc) == loc.exc

\* wrapper, the finally block: set the row, commit, then return or re-raise.
Finalize(r) ==
    /\ run[r].pc = "finally"
    /\ clock' = clock + 1
    /\ history' = [history EXCEPT ![r] = FinalRow(@, run[r], clock')]
    /\ run' = [run EXCEPT ![r].pc = "done",
                          ![r].raised = Reraised(run[r]),
                          ![r].returned = (Reraised(run[r]) = NullMsg)]
    /\ UNCHANGED <<upstream, generation, ld, ft, tf, bt, dash>>

\* ----------------------------------------------------------- run_pipeline
\* func returned the metrics dict: the wrapper copies it into its locals.
Returned(loc, total, valid, last) ==
    [loc EXCEPT !.pc = "finally", !.total_fetched = total,
                !.valid_records = valid, !.last_fetched_id = last,
                !.success = 1]

\* func raised an exception e with str(e) = msg: the except block records
\* the message.
Raised(loc, msg) ==
    [loc EXCEPT !.pc = "finally", !.exc = msg, !.error_message = msg]

\* Faulty variant: the metrics always report the starting cursor.
LastFetchedIdCursor(df, last_id) == last_id

\* last_fetched_id of the metrics: df["_id"].max() if valid_records > 0
\* else last_id.
LastFetchedId(df, last_id) ==
    IF Len(df) > 0 THEN Max({df[k]._id : k \in 1..Len(df)}) ELSE last_id

\* Determine the cursor.
ReadCursor(r) ==
    /\ run[r].pc = "cursor"
    /\ run' = [run EXCEPT ![r].pc = "fetch",
                          ![r].last_id = LastId(generation),
                          ![r].gen0 = generation]
    /\ UNCHANGED <<upstream, generation, history, clock, ld, ft, tf, bt, dash>>

\* transform_records, then the call of upsert_generation_data up to its
\* first statement: an empty table is a no-op and the run returns.
AfterTransform(loc, df) ==
    IF Len(df) = 0
    THEN Returned(loc, Len(loc.records), 0, LastFetchedId(df, loc.last_id))
    ELSE [loc EXCEPT !.pc = "load"]

\* Faulty variant: no early return for an empty fetch.
AfterFetchNoShortCut(loc, records) ==
    AfterTransform([loc EXCEPT !.df = TransformRecords(records), !.i = 0,
                               !.calls = @ \cup {"transform", "load"}],
                   TransformRecords(records))

\* After the fetch: no records ends the run at once; otherwise the records
\* are transformed and handed to the Loader.
AfterFetch(loc, records) ==
    IF Len(records) = 0
    THEN Returned(loc, 0, 0, loc.last_id)
    ELSE AfterTransform([loc EXCEPT !.df = TransformRecords(records), !.i = 0,
                                    !.calls = @ \cup {"transform", "load"}],
                        TransformRecords(records))

\* The fetch succeeds; the steps up to the Loader's first statement touch
\* no shared state and are taken with it.
FetchOk(r) ==
    /\ run[r].pc = "fetch"
    /\ LET records == FetchNesoData(upstream, run[r].last_id)
           loc == [run[r] EXCEPT !.records = records,
                                 !.calls = @ \cup {"fetch"},
                                 !.upLen = Len(upstream)]
       IN  run' = [run EXCEPT ![r] = AfterFetch(loc, records)]
    /\ UNCHANGED <<upstream, generation, history, clock, ld, ft, tf, bt, dash>>

\* A page request fails after its retries.
FetchFail(r) ==
    /\ run[r].pc = "fetch"
    /\ run' = [run EXCEPT ![r] =
                  Raised([@ EXCEPT !.calls = @ \cup {"fetch"},
                                   !.upLen = Len(upstream)], FetchError)]
    /\ UNCHANGED <<upstream, generation, history, clock, ld, ft, tf, bt, dash>>

\* Faulty variant: the rows are stored as parsed, before validation raises.
TransformFailStored(r) ==
    /\ run[r].pc = "fetch"
    /\ LET records == FetchNesoData(upstream, run[r].last_id)
       IN  /\ Len(records) > 0
           /\ generation' = UpsertStmt(generation,
                                ParseAndCast(AlignSchema(records)))
           /\ run' = [run EXCEPT ![r] =
                         Raised([@ EXCEPT !.records = records,
                                          !.calls = @ \cup {"fetch", "transform"},
                                          !.upLen = Len(upstream)],
                                TransformError)]
    /\ UNCHANGED <<upstream, history, clock, ld, ft, tf, bt, dash>>

\* The fetch succeeds with records and transform_records raises.
TransformFail(r) ==
    /\ run[r].pc = "fetch"
    /\ LET records == FetchNesoData(upstream, run[r].last_id)
       IN  /\ Len(records) > 0
           /\ run' = [run EXCEPT ![r] =
                         Raised([@ EXCEPT !.records = records,
                                          !.calls = @ \cup {"fetch", "transform"},
                                          !.upLen = Len(upstream)],
                                TransformError)]
    /\ UNCHANGED <<upstream, generation, history, clock, ld, ft, tf, bt, dash>>

\* Faulty variant: the Loader returns after its first statement.
AfterBatchFirstOnly(loc, i) ==
    Returned([loc EXCEPT !.i = i], Len(loc.records), Len(loc.df),
             LastFetchedId(loc.df, loc.last_id))

\* After a committed statement: the loop goes on, or the run returns.
AfterBatch(loc, i) ==
    IF i >= Len(loc.df)
    THEN Returned([loc EXCEPT !.i = i], Len(loc.records), Len(loc.df),
                  LastFetchedId(loc.df, loc.last_id))
    ELSE [loc EXCEPT !.i = i]

\* One iteration of the Loader's loop: execute the statement, commit.
LoadBatch(r) ==
    /\ run[r].pc = "load"
    /\ generation' = UpsertStmt(generation,
                         Slice(run[r].df, run[r].i, BatchSize(NumCols)))
    /\ run' = [run EXCEPT ![r] = AfterBatch(@, @.i + BatchSize(NumCols))]
    /\ UNCHANGED <<upstream, history, clock, ld, ft, tf, bt, dash>>

\* session.execute raises: nothing of this statement is committed.
LoadFail(r) ==
    /\ run[r].pc = "load"
    /\ run' = [run EXCEPT ![r] = Raised(@, StoreError)]
    /\ UNCHANGED <<upstream, generation, history, clock, ld, ft, tf, bt, dash>>

Step(r) ==
    \/ ReadCursor(r)
    \/ FetchFail(r)
    \/ FetchOk(r)
    \/ TransformFail(r)
    \/ LoadFail(r)
    \/ LoadBatch(r)
    \/ Finalize(r)

Next ==
    \/ Publish
    \/ \E r \in Runs : Start(r)
    \/ \E r \in Runs : Step(r)

Spec == Init /\ [][Next]_vars

\* A started invocation runs on: the thread of the scheduler's job is not
\* suspended for ever.
FairSpec == Spec /\ \A r \in Runs : WF_vars(Step(r))

\* ---------------------------------------------------------- the dashboard
\* st.session_state["gen_df"] of a session that has no such key.
KeyError == "KeyError: 'gen_df'"

\* SELECT MAX(_id) FROM generation: one row, NULL for an empty table.
DataVersion(table) == IF table = {} THEN NULL ELSE Max({s._id : s \in table})

\* The condition under which load_generation_data queries the table again:
\* app/utils/data_loader.py tests `gen_df is None or data_version_cached !=
\* data_version_new`, streamlit_app.py `data_version_cached !=
\* data_version_new` alone.
MustReload(d, new) ==
    \/ d.impl = "utils" /\ ~d.has
    \/ d.data_version # new

\* A session of the dashboard, running either load_generation_data, beside
\* the pipeline.
DashInit ==
    /\ upstream = <<>>
    /\ generation = {}
    /\ history = <<>>
    /\ run = [r \in Runs |-> IdleRun]
    /\ clock = 0
    /\ ld = LdOff
    /\ ft = FtOff
    /\ tf = TfOff
    /\ bt = BtOff
    /\ \E impl \in {"utils", "app"} :
          dash = [DashOff EXCEPT !.pc = "idle", !.impl = impl]

\* load_generation_data up to its test: the version query, in a session of
\* its own; when the test fails the cached table is returned, which is a
\* KeyError where the key was never set.
DashQueryVersion ==
    /\ dash.pc = "idle"
    /\ LET new == DataVersion(generation)
       IN  dash' = IF MustReload(dash, new)
                   THEN [dash EXCEPT !.pc = "load", !.new = new]
                   ELSE IF dash.has
                        THEN [dash EXCEPT !.new = new, !.out = dash.gen_df]
                        ELSE [dash EXCEPT !.new = new, !.pc = "raised",
                                          !.exc = KeyError]
    /\ UNCHANGED <<upstream, generation, history, run, clock, ld, ft, tf, bt>>

\* The data query, in another session, and the two assignments to
\* st.session_state; the table read is returned.
DashQueryData ==
    /\ dash.pc = "load"
    /\ dash' = [dash EXCEPT !.pc = "idle", !.has = TRUE,
                            !.gen_df = generation,
                            !.data_version = dash.new,
                            !.out = generation]
    /\ UNCHANGED <<upstream, generation, history, run, clock, ld, ft, tf, bt>>

DashRead == DashQueryVersion \/ DashQueryData

DashNext == Next \/ DashRead

DashSpec == DashInit /\ [][DashNext]_vars

\* ------------------------------------------------------- the Loader alone
\* upsert_generation_data(df, session) called on a store, and called again
\* with the same df as soon as it has returned (test_upsert_generation_data).
LoadIds == 1..MaxLoadId
\* GENERATION values of stored rows.
LoadNumbers == {0, 5}

\* The rows a function from ids to cells (or to Absent) describes.
Absent == <<>>
RowsOf(f) ==
    {[_id |-> k, DATETIME |-> f[k][1], GENERATION |-> f[k][2],
      WIND |-> f[k][2], WIND_perc |-> IF f[k][2] = 0 THEN 0 ELSE 100] :
        k \in {j \in DOMAIN f : f[j] # Absent}}

\* Every state of table generation over LoadIds: _id is the primary key.
LoadStores ==
    {RowsOf(f) : f \in [LoadIds -> {Absent} \cup (Datetimes \X LoadNumbers)]}

\* A set of rows with distinct _id as a table in ascending _id order.
RECURSIVE AsTable(_)
AsTable(rows) ==
    IF rows = {} THEN <<>>
    ELSE LET top == CHOOSE s \in rows : \A t \in rows : t._id <= s._id
         IN  Append(AsTable(rows \ {top}), top)

\* Canonical tables over LoadIds, as transform_records returns them:
\* ascending _id, no _id and no DATETIME twice, no null.
LoadTables ==
    {AsTable(RowsOf(f)) :
        f \in {g \in [LoadIds -> {Absent} \cup (Datetimes \X {5})] :
                  \A a, b \in LoadIds :
                      (a # b /\ g[a] # Absent /\ g[b] # Absent)
                          => g[a][1] # g[b][1]}}

LoadInit ==
    /\ upstream = <<>>
    /\ history = <<>>
    /\ run = [r \in Runs |-> IdleRun]
    /\ clock = 0
    /\ dash = DashOff
    /\ ft = FtOff
    /\ tf = TfOff
    /\ bt = BtOff
    /\ generation \in LoadStores
    /\ \E df \in LoadTables :
          ld = [phase |-> "call1", call |-> 1, df |-> df, i |-> 0,
                before |-> generation, after1 |-> {}, raised |-> NullMsg]

LdCalling == ld.phase \in {"call1", "call2"}

\* One iteration of the loop: execute the statement, commit.
LdBatch ==
    /\ LdCalling
    /\ ld.i < Len(ld.df)
    /\ generation' = UpsertStmt(generation,
                         Slice(ld.df, ld.i, BatchSize(NumCols)))
    /\ ld' = [ld EXCEPT !.i = @ + BatchSize(NumCols)]
    /\ UNCHANGED <<upstream, history, run, clock, ft, tf, bt, dash>>

\* The call returns (at once for an empty table); the first call is
\* followed by the second.
LdReturn ==
    /\ LdCalling
    /\ ld.i >= Len(ld.df)
    /\ ld' = IF ld.phase = "call1"
             THEN [ld EXCEPT !.phase = "call2", !.call = 2, !.i = 0,
                             !.after1 = generation]
             ELSE [ld EXCEPT !.phase = "done"]
    /\ UNCHANGED <<upstream, generation, history, run, clock, ft, tf, bt, dash>>

\* Faulty variant: one commit after the loop, so a failure rolls the whole
\* call back.
StoreOnFailureRolledBack(at_call, committed) == at_call

\* The store after session.execute has raised in a call that found it as
\* at_call and has left it as committed with its commits so far: the failed
\* statement is discarded with the session, the commits stay.
StoreOnFailure(at_call, committed) == committed

\* session.execute raises: the call ends with the exception.
LdFail ==
    /\ LdCalling
    /\ ld.i < Len(ld.df)
    /\ generation' = StoreOnFailure(IF ld.call = 1 THEN ld.before ELSE ld.after1,
                                    generation)
    /\ ld' = [ld EXCEPT !.phase = "failed", !.raised = StoreError]
    /\ UNCHANGED <<upstream, history, run, clock, ft, tf, bt, dash>>

LoadNext == LdBatch \/ LdReturn \/ LdFail

LoadSpec == LoadInit /\ [][LoadNext]_vars

\* ------------------------------------------- the Loader's loop, any width
\* len(df.columns) of the tables of BatchSpec: the widths at which the batch
\* size changes between 1, 2 and 3, the 35 columns of Generation, and 20.
ColumnCounts == {20, 35, 333, 334, 499, 500, 999}

\* A table of n rows; a row is known by its position.
TableOf(n) == [k \in 1..n |-> k]

\* upsert_generation_data(df, session) is called with a table of 1 to
\* MaxTableRows rows of any of the widths, or of 2000 rows and 20 columns.
BatchInit ==
    /\ upstream = <<>>
    /\ generation = {}
    /\ history = <<>>
    /\ run = [r \in Runs |-> IdleRun]
    /\ clock = 0
    /\ dash = DashOff
    /\ ld = LdOff
    /\ ft = FtOff
    /\ tf = TfOff
    /\ \E n \in 1..MaxTableRows \cup {2000}, c \in ColumnCounts :
          /\ n = 2000 => c = 20
          /\ bt = [BtOff EXCEPT !.pc = "loop", !.df = TableOf(n),
                                !.num_cols = c]

\* One iteration of `for i in range(0, total, batch_size)`: the statement
\* binds the values of the chunk's rows.
BtStatement ==
    /\ bt.pc = "loop"
    /\ bt.i < Len(bt.df)
    /\ bt' = [bt EXCEPT !.stmts = Append(@, Slice(bt.df, bt.i,
                                                  BatchSize(bt.num_cols))),
                        !.i = @ + BatchSize(bt.num_cols)]
    /\ UNCHANGED <<upstream, generation, history, run, clock, ld, ft, tf, dash>>

\* The range is exhausted.
BtReturn ==
    /\ bt.pc = "loop"
    /\ bt.i >= Len(bt.df)
    /\ bt' = [bt EXCEPT !.pc = "done"]
    /\ UNCHANGED <<upstream, generation, history, run, clock, ld, ft, tf, dash>>

BatchNext == BtStatement \/ BtReturn

BatchSpec == BatchInit /\ [][BatchNext]_vars

\* ------------------------------------------------------ the Fetcher alone
\* requests.get raised (connection error, timeout, HTTP error status).
TransportError == "HTTPSConnectionPool: Read timed out"

\* The records of one page: SELECT * WHERE _id > latest_id ORDER BY _id ASC
\* LIMIT batch_size.
Page(up, latest_id, batch_size) ==
    LET rows == SelectSeq(up, LAMBDA r : r._id > latest_id)
    IN  SubSeq(rows, 1, IF Len(rows) < batch_size THEN Len(rows) ELSE batch_size)

\* What result.get("records", []) may hold: the page as requested, or, from
\* an upstream that ignores ORDER BY, the same records in descending order.
Responses(up, latest_id, batch_size) ==
    LET page == Page(up, latest_id, batch_size)
    IN  {page, [k \in 1..Len(page) |-> page[Len(page) + 1 - k]]}

\* Faulty variant: max_tries read as the number of retries.
GiveUpAfterRetries(tries) == tries > MaxTries

\* backoff.on_exception(..., max_tries=5): after this many failed attempts
\* the exception of the last one is raised.
GiveUp(tries) == tries >= MaxTries

\* if max_records and total_fetched >= max_records
MaxReached(max_records, total) ==
    max_records # NULL /\ max_records # 0 /\ total >= max_records

\* Faulty variant: a short page does not end the loop.
StopsNoShortPage(records, batch_size, max_records, total) ==
    MaxReached(max_records, total)

\* The two breaks after a non-empty page.
Stops(records, batch_size, max_records, total) ==
    MaxReached(max_records, total) \/ Len(records) < batch_size

\* Faulty variant: a failed page request ends the loop and the records
\* accumulated so far are returned.
OnExhaustedPartial(loc, msg) ==
    [loc EXCEPT !.pc = "returned", !.result = loc.all_records]

\* The exception leaves _get_request and fetch_neso_data, which has no
\* handler: nothing is returned.
OnExhausted(loc, msg) == [loc EXCEPT !.pc = "raised", !.exc = msg]

\* return all_records
FetchReturns(loc) == [loc EXCEPT !.pc = "returned", !.result = loc.all_records]

\* Faulty variant: the cursor is taken from the first record of the page.
AfterPageFirstId(loc, records) ==
    IF records = <<>> THEN FetchReturns(loc)
    ELSE LET next == [loc EXCEPT !.all_records = @ \o records,
                                 !.total_fetched = @ + Len(records),
                                 !.latest_id = records[1]._id]
         IN  IF Stops(records, loc.batch_size, loc.max_records,
                      next.total_fetched)
             THEN FetchReturns(next)
             ELSE next

\* The body of the while loop after _get_request has returned a page.
AfterPage(loc, records) ==
    IF records = <<>> THEN FetchReturns(loc)
    ELSE LET next == [loc EXCEPT !.all_records = @ \o records,
                                 !.total_fetched = @ + Len(records),
                                 !.latest_id = records[Len(records)]._id]
         IN  IF Stops(records, loc.batch_size, loc.max_records,
                      next.total_fetched)
             THEN FetchReturns(next)
             ELSE next

\* fetch_neso_data(last_id, batch_size, max_records) is called while the
\* upstream goes on publishing.
FetchInit ==
    /\ upstream = <<>>
    /\ generation = {}
    /\ history = <<>>
    /\ run = [r \in Runs |-> IdleRun]
    /\ clock = 0
    /\ dash = DashOff
    /\ ld = LdOff
    /\ tf = TfOff
    /\ bt = BtOff
    /\ \E last_id \in 0..(MaxFetchUp - 1), batch_size \in 1..MaxPage,
          max_records \in {NULL} \cup 1..MaxFetchUp :
          ft = [FtOff EXCEPT !.pc = "request", !.last_id = last_id,
                             !.latest_id = last_id,
                             !.batch_size = batch_size,
                             !.max_records = max_records]

\* The upstream resource appends a record, before or during the fetch; the
\* Fetcher reads nothing of a record but its _id.
FtPublish ==
    /\ Len(upstream) < MaxFetchUp
    /\ upstream' = Append(upstream, [_id |-> Len(upstream) + 1,
                                     DATETIME |-> Stamps[1], GENERATION |-> 5,
                                     WIND |-> 5, WIND_perc |-> 100])
    /\ UNCHANGED <<generation, history, run, clock, ld, ft, tf, bt, dash>>

\* An attempt of the page request fails: requests.get or raise_for_status
\* raises, or the response has success false. It is made again after the
\* backoff wait unless the tries are used up.
FtAttemptFails ==
    /\ ft.pc = "request"
    /\ \E msg \in {TransportError, FetchError} :
          ft' = IF GiveUp(ft.tries + 1)
                THEN OnExhausted([ft EXCEPT !.tries = @ + 1], msg)
                ELSE [ft EXCEPT !.tries = @ + 1]
    /\ UNCHANGED <<upstream, generation, history, run, clock, ld, tf, bt, dash>>

\* An attempt succeeds: the page is returned to the loop.
FtAttemptSucceeds ==
    /\ ft.pc = "request"
    /\ \E records \in Responses(upstream, ft.latest_id, ft.batch_size) :
          ft' = AfterPage([ft EXCEPT !.tries = 0,
                                     !.pages = Append(@, records),
                                     !.attempts = Append(@, ft.tries + 1),
                                     !.cursors = Append(@, ft.latest_id)],
                          records)
    /\ UNCHANGED <<upstream, generation, history, run, clock, ld, tf, bt, dash>>

FtAttempt == FtAttemptFails \/ FtAttemptSucceeds

FetchNext == FtPublish \/ FtAttempt

FetchSpec == FetchInit /\ [][FetchNext]_vars

\* The thread that runs the fetch is not suspended for ever and the backoff
\* waits end.
FairFetchSpec == FetchSpec /\ WF_vars(FtAttempt)

\* ------------------------------------------------- the Transformer alone
\* Sequences over S of length at most n.
SeqsUpTo(S, n) == UNION {[1..m -> S] : m \in 0..n}

\* Typed rows with non-null keys, as _deduplicate receives them.
DedupRows ==
    [_id : 1..MaxDedupId, DATETIME : Datetimes, GENERATION : {0, 5},
     WIND : {0}, WIND_perc : {0}]

\* _deduplicate(df) called on a batch in any arrangement of its rows.
DedupInit ==
    /\ upstream = <<>>
    /\ generation = {}
    /\ history = <<>>
    /\ run = [r \in Runs |-> IdleRun]
    /\ clock = 0
    /\ dash = DashOff
    /\ ld = LdOff
    /\ ft = FtOff
    /\ bt = BtOff
    /\ \E df \in SeqsUpTo(DedupRows, MaxDedupRows) :
          tf = [TfOff EXCEPT !.pc = "dedup", !.df = df]

TfDeduplicate ==
    /\ tf.pc = "dedup"
    /\ tf' = [tf EXCEPT !.pc = "done", !.out = Deduplicate(tf.df),
                        !.count = DedupRemoved(tf.df)]
    /\ UNCHANGED <<upstream, generation, history, run, clock, ld, ft, bt, dash>>

DedupNext == TfDeduplicate

DedupSpec == DedupInit /\ [][DedupNext]_vars

\* Raw records as the upstream may send them: any key may be null, the
\* DATETIME may be malformed, any number may be null or zero, the percentage
\* may agree with the absolute value (25), differ by the tolerance (26) or by
\* more (99).
RawIds == {NULL, 1, 2}
RawStamps == {Stamps[1], Stamps[2], "not-a-date"}
RawRows ==
    [_id : RawIds, DATETIME : RawStamps, GENERATION : {NULL, 0, 200},
     WIND : {NULL, 0, 50}, WIND_perc : {NULL, 25, 26, 99}]
\* Raw records of a batch that has no WIND_perc column.
NarrowRows ==
    [_id : RawIds, DATETIME : RawStamps, GENERATION : {NULL, 0, 200},
     WIND : {NULL, 0, 50}]

\* datetime.strftime("%Y-%m-%dT%H:%M:%S"), the inverse of the format that
\* _parse_and_cast reads.
FormatDatetime(t) == IF t \in Datetimes THEN Stamps[t] ELSE "None"

\* The rows of a canonical table as a batch of records for transform_records,
\* its DATETIME a string again.
ToRecords(df) ==
    [k \in 1..Len(df) |-> [df[k] EXCEPT !.DATETIME = FormatDatetime(@)]]

\* transform_records(records) called on a batch, and called again on the
\* rows it returned.
TransformInit ==
    /\ upstream = <<>>
    /\ generation = {}
    /\ history = <<>>
    /\ run = [r \in Runs |-> IdleRun]
    /\ clock = 0
    /\ dash = DashOff
    /\ ld = LdOff
    /\ ft = FtOff
    /\ bt = BtOff
    /\ \E records \in SeqsUpTo(RawRows, MaxRawRows)
                        \cup SeqsUpTo(NarrowRows, MaxRawRows) :
          tf = [TfOff EXCEPT !.pc = "raw", !.pass = 1, !.records = records]

TfTransform ==
    /\ tf.pc = "raw"
    /\ tf' = [tf EXCEPT !.pc = "done", !.out = TransformRecords(tf.records),
                        !.summary = QualitySummary(tf.records)]
    /\ UNCHANGED <<upstream, generation, history, run, clock, ld, ft, bt, dash>>

TfFeedBack ==
    /\ tf.pc = "done"
    /\ tf.pass = 1
    /\ tf' = [tf EXCEPT !.pc = "raw", !.pass = 2, !.first = tf.out,
                        !.records = ToRecords(tf.out)]
    /\ UNCHANGED <<upstream, generation, history, run, clock, ld, ft, bt, dash>>

TransformNext == TfTransform \/ TfFeedBack

TransformSpec == TransformInit /\ [][TransformNext]_vars

\* Typed rows as _validate_perc_consistency receives them: any number may be
\* null or zero; the WIND percentage may agree with the absolute value (25),
\* differ by the tolerance (26) or by more (99), the SOLAR percentage agrees
\* (25) or not (99).
PercRows ==
    [_id : {1}, DATETIME : {1}, GENERATION : {NULL, 0, 200},
     WIND : {NULL, 0, 50}, WIND_perc : {NULL, 25, 26, 99},
     SOLAR : {50}, SOLAR_perc : {25, 99}]
\* Rows of a batch that has no SOLAR_perc column.
PercRowsNoSolarPerc ==
    [_id : {1}, DATETIME : {1}, GENERATION : {NULL, 0, 200},
     WIND : {NULL, 0, 50}, WIND_perc : {NULL, 25, 26, 99}, SOLAR : {50}]

\* _validate_perc_consistency(df) called on a batch.
PercInit ==
    /\ upstream = <<>>
    /\ generation = {}
    /\ history = <<>>
    /\ run = [r \in Runs |-> IdleRun]
    /\ clock = 0
    /\ dash = DashOff
    /\ ld = LdOff
    /\ ft = FtOff
    /\ bt = BtOff
    /\ \E df \in SeqsUpTo(PercRows, MaxPercRows)
                   \cup SeqsUpTo(PercRowsNoSolarPerc, MaxPercRows) :
          tf = [TfOff EXCEPT !.pc = "perc", !.df = df]

TfPercConsistency ==
    /\ tf.pc = "perc"
    /\ tf' = [tf EXCEPT !.pc = "done", !.out = PercConsistency(tf.df),
                        !.count = InvalidPercCount(tf.df)]
    /\ UNCHANGED <<upstream, generation, history, run, clock, ld, ft, bt, dash>>

PercNext == TfPercConsistency

PercSpec == PercInit /\ [][PercNext]_vars

\* Typed rows as _validate_missing_values receives them: any key and any
\* number may be null.
MissingRows ==
    [_id : {NULL, 1, 2}, DATETIME : {NULL} \cup 1..2, GENERATION : {NULL, 200},
     WIND : {NULL, 50}, WIND_perc : {NULL, 25}]

\* _validate_missing_values(df) called on a batch; transform_records then
\* hands the table to _deduplicate, whose result is the canonical table.
MissingInit ==
    /\ upstream = <<>>
    /\ generation = {}
    /\ history = <<>>
    /\ run = [r \in Runs |-> IdleRun]
    /\ clock = 0
    /\ dash = DashOff
    /\ ld = LdOff
    /\ ft = FtOff
    /\ bt = BtOff
    /\ \E df \in SeqsUpTo(MissingRows, MaxMissingRows) :
          tf = [TfOff EXCEPT !.pc = "missing", !.df = df]

TfMissingValues ==
    /\ tf.pc = "missing"
    /\ tf' = [tf EXCEPT !.pc = "filled", !.first = MissingValues(tf.df),
                        !.count = NullRowCount(tf.df)]
    /\ UNCHANGED <<upstream, generation, history, run, clock, ld, ft, bt, dash>>

TfCanonical ==
    /\ tf.pc = "filled"
    /\ tf' = [tf EXCEPT !.pc = "done", !.out = Deduplicate(tf.first)]
    /\ UNCHANGED <<upstream, generation, history, run, clock, ld, ft, bt, dash>>

MissingNext == TfMissingValues \/ TfCanonical

MissingSpec == MissingInit /\ [][MissingNext]_vars

\* Raw records for the quality summary: a key may be null or unparseable, a
\* number may be null, a percentage may be inconsistent.
QualityRows ==
    [_id : {NULL, 1, 2}, DATETIME : {Stamps[1], "not-a-date"},
     GENERATION : {200}, WIND : {NULL, 50}, WIND_perc : {25, 99}]

\* transform_records(records) called on a batch, its summary kept.
QualityInit ==
    /\ upstream = <<>>
    /\ generation = {}
    /\ history = <<>>
    /\ run = [r \in Runs |-> IdleRun]
    /\ clock = 0
    /\ dash = DashOff
    /\ ld = LdOff
    /\ ft = FtOff
    /\ bt = BtOff
    /\ \E records \in SeqsUpTo(QualityRows, MaxQualityRows) :
          tf = [TfOff EXCEPT !.pc = "raw", !.pass = 1, !.records = records]

QualityNext == TfTransform

QualitySpec == QualityInit /\ [][QualityNext]_vars

\* ================================================================= claims
IdsOf(df) == {df[k]._id : k \in 1..Len(df)}

Done(r) == run[r].pc = "done"
Started(r) == run[r].pc # "idle"
\* The wrapped pipeline has returned / has raised.
FuncReturned(r) == run[r].pc \in {"finally", "done"} /\ run[r].exc = NullMsg
FuncRaised(r) == run[r].pc \in {"finally", "done"} /\ run[r].exc # NullMsg
\* Invocation a was finalized before invocation b started.
Before(a, b) ==
    Done(a) /\ Started(b) /\ history[a].run_stop < history[b].run_start
\* Invocation c has not read or written table generation yet.
NotYet(c) == run[c].pc \in {"idle", "cursor"}
\* The upstream as it was when it held n records.
Up(n) == SubSeq(upstream, 1, n)
\* The table one uninterrupted, successful run produces from a store.
SingleRun(table, up) ==
    UpsertFrom(table, TransformRecords(FetchNesoData(up, LastId(table))), 0)

\* C1: in every reachable state no two rows of table generation share an
\* _id and no two rows share a DATETIME, whichever runs loaded them.
C1_UniqueIdAndDatetime ==
    \A s, t \in generation :
        s # t => (s._id # t._id /\ s.DATETIME # t.DATETIME)

\* C4: a store failure in the middle of an upsert is recovered without gaps.
\* The canonical table is in ascending _id order; once run a has failed at a
\* statement after committing at least one, with no other run at work, the
\* largest stored _id is the last _id it committed and every canonical row of
\* a up to that _id is stored; a run b that starts after a was finalized reads
\* that _id as its cursor; and when b succeeds against the upstream a saw,
\* table generation is the table one uninterrupted run of a would have left.
C4_ResumeAfterStoreFailure ==
    \A a \in Runs :
        (FuncRaised(a) /\ run[a].exc = StoreError) =>
            LET df == run[a].df
                committed == IF run[a].i > 0 THEN df[run[a].i]._id
                             ELSE run[a].last_id
            IN  /\ \A k, j \in 1..Len(df) : k < j => df[k]._id < df[j]._id
                /\ (\A c \in Runs \ {a} : NotYet(c) \/ Before(c, a)) =>
                      /\ LastId(generation) = committed
                      /\ \A k \in 1..Len(df) :
                            df[k]._id <= committed => df[k] \in generation
                /\ \A b \in Runs \ {a} :
                      ( /\ Before(a, b)
                        /\ ~NotYet(b)
                        /\ \A c \in Runs \ {a, b} :
                              NotYet(c) \/ (Before(c, a) /\ Before(c, b)) ) =>
                          /\ run[b].last_id = committed
                          /\ (FuncReturned(b) /\ run[b].upLen = run[a].upLen) =>
                                generation =
                                    SingleRun(run[a].gen0, Up(run[a].upLen))

\* Run 1 failed at its second statement, run 2 started after it, read the
\* last committed _id as its cursor and loaded the rest.
C4_Witness ==
    /\ run[1].exc = StoreError
    /\ run[1].i > 0
    /\ Len(run[1].df) > run[1].i
    /\ Before(1, 2)
    /\ Done(2)
    /\ FuncReturned(2)
    /\ run[2].upLen = run[1].upLen
    /\ run[2].last_id = run[1].df[run[1].i]._id
    /\ Len(run[2].df) > 0
    /\ generation = Range(run[1].df)

\* C6: when the wrapped pipeline raises, the Run History row of the run is
\* committed with success false and error_message the exception's message,
\* and the wrapper ends by raising that exception, never by returning.
C6_FailureRecordedAndReraised ==
    \A r \in Runs :
        (Done(r) /\ run[r].exc # NullMsg) =>
            /\ history[r].success = 0
            /\ history[r].error_message = run[r].exc
            /\ run[r].raised = run[r].exc
            /\ ~run[r].returned

\* A run that failed in the Loader after a committed statement is finalized.
C6_Witness ==
    \E r \in Runs :
        /\ Done(r)
        /\ run[r].exc = StoreError
        /\ run[r].i > 0
        /\ history[r].error_message = StoreError

\* C7: when the wrapped pipeline returns, the finalized row has success
\* true, error_message null, total_fetched the number of raw records the
\* fetch returned, valid_records the number of canonical rows and
\* last_fetched_id the largest _id of the canonical table, or the starting
\* cursor when no row was valid.
C7_SuccessMetrics ==
    \A r \in Runs :
        (Done(r) /\ run[r].exc = NullMsg) =>
            LET fetched == FetchNesoData(Up(run[r].upLen), run[r].last_id)
                canonical == TransformRecords(fetched)
            IN  /\ history[r].success = 1
                /\ history[r].error_message = NullMsg
                /\ history[r].total_fetched = Len(fetched)
                /\ history[r].valid_records = Len(canonical)
                /\ history[r].last_fetched_id =
                      IF Len(canonical) > 0 THEN Max(IdsOf(canonical))
                      ELSE run[r].last_id
                /\ run[r].returned

\* A successful run that fetched more records than it found valid, from a
\* cursor above 0.
C7_Witness ==
    \E r \in Runs :
        /\ Done(r)
        /\ run[r].exc = NullMsg
        /\ run[r].last_id > 0
        /\ history[r].valid_records > 0
        /\ history[r].total_fetched > history[r].valid_records
        /\ history[r].last_fetched_id > run[r].last_id

\* C8: from the commit at run start until finalization the Run History row
\* carries the start time only; stop time, last_fetched_id, the metrics, the
\* outcome and error_message are not set.
C8_StartTimeOnly ==
    \A r \in Runs :
        run[r].pc \in {"cursor", "fetch", "load", "finally"} =>
            /\ history[r].run_start # NULL
            /\ history[r].run_stop = NULL
            /\ history[r].last_fetched_id = NULL
            /\ history[r].total_fetched = NULL
            /\ history[r].valid_records = NULL
            /\ history[r].success = NULL
            /\ history[r].error_message = NullMsg

\* The fetch of run r returned no record.
ZeroFetch(r) ==
    /\ "fetch" \in run[r].calls
    /\ run[r].exc = NullMsg
    /\ run[r].records = <<>>

\* C9: a run whose fetch returns zero records invokes neither the
\* Transformer nor the Loader, executes no statement, leaves table
\* generation as it is in each of its steps, and ends with a Run History row
\* with total_fetched 0, valid_records 0, success true and last_fetched_id
\* the starting cursor.
C9_ZeroFetchRun ==
    /\ [](\A r \in Runs :
            ZeroFetch(r) =>
                /\ run[r].calls = {"fetch"}
                /\ run[r].i = 0
                /\ Done(r) =>
                      /\ history[r].total_fetched = 0
                      /\ history[r].valid_records = 0
                      /\ history[r].success = 1
                      /\ history[r].last_fetched_id = run[r].last_id)
    /\ [][\A r \in Runs :
            (run'[r] # run[r] /\ ZeroFetch(r)') => generation' = generation]_vars

\* A finalized zero-fetch run that started from a non-empty store while the
\* upstream held records.
C9_Witness ==
    \E r \in Runs :
        /\ Done(r)
        /\ ZeroFetch(r)
        /\ run[r].last_id > 0
        /\ run[r].upLen > 0
        /\ generation # {}

\* C2: upsert is idempotent. When upsert_generation_data(T) has returned a
\* second time, called right after its first return, table generation has
\* the row count and, row for row, the column values it had after the first
\* call (checked under LoadSpec, for every store and canonical table).
C2_UpsertIdempotent ==
    ld.phase = "done" =>
        /\ Cardinality(generation) = Cardinality(ld.after1)
        /\ \A s \in ld.after1 : s \in generation

\* The second call has returned after rewriting, in more than one statement,
\* a table that changed rows of the store the first time.
C2_Witness ==
    /\ ld.phase = "done"
    /\ Len(ld.df) > BatchSize(NumCols)
    /\ \E s \in ld.before : s._id \in IdsOf(ld.df) /\ s \notin ld.after1
    /\ generation = ld.after1

\* C3: postcondition of one upsert_generation_data(T) on a store S. A row of
\* T whose _id was in S is stored with T's value in every non-key column; a
\* row of T with a new _id is inserted; a row of S whose _id is not in T is
\* unchanged (checked under LoadSpec on the table as the first call left it).
C3_UpsertPostcondition ==
    ld.phase \in {"call2", "done"} =>
        /\ \A k \in 1..Len(ld.df) :
              /\ \E a \in ld.after1 : a._id = ld.df[k]._id
              /\ \A a \in ld.after1 :
                    a._id = ld.df[k]._id =>
                        /\ a.DATETIME = ld.df[k].DATETIME
                        /\ a.GENERATION = ld.df[k].GENERATION
        /\ \A s \in ld.before : s._id \notin IdsOf(ld.df) => s \in ld.after1
        /\ \A a \in ld.after1 :
              a._id \in IdsOf(ld.df) \cup {s._id : s \in ld.before}

\* The first call has returned having overwritten both non-key columns of a
\* stored row, inserted a row and left another row alone.
C3_Witness ==
    /\ ld.phase = "call2"
    /\ \E s \in ld.before : \E k \in 1..Len(ld.df) :
          /\ s._id = ld.df[k]._id
          /\ s.DATETIME # ld.df[k].DATETIME
          /\ s.GENERATION # ld.df[k].GENERATION
          /\ ld.df[k] \in ld.after1
    /\ \E k \in 1..Len(ld.df) : ld.df[k]._id \notin {s._id : s \in ld.before}
    /\ \E s \in ld.before : s._id \notin IdsOf(ld.df) /\ s \in ld.after1

\* C5: every invocation of the tracked pipeline creates exactly one Run
\* History row; once the invocation has ended, by return or by an exception
\* of the Fetcher, the Transformer or the Loader, the committed row carries
\* the stop time taken in the finally block; and every invocation that has
\* started reaches that point (checked under FairSpec).
C5_GuaranteedFinalization ==
    /\ [](Len(history) = Cardinality({r \in Runs : Started(r)}))
    /\ [](\A r \in Runs :
            Done(r) => /\ history[r].run_stop > history[r].run_start
                       /\ run[r].returned # (run[r].raised # NullMsg))
    /\ \A r \in Runs :
          Started(r) ~> (Done(r) /\ history[r].run_stop > history[r].run_start)

\* Two invocations have ended, one by returning and one by an exception of
\* the Loader, each with its own finalized row.
C5_Witness ==
    /\ Len(history) = 2
    /\ Done(1) /\ Done(2)
    /\ \E a, b \in {1, 2} :
          /\ run[a].returned
          /\ run[b].raised = StoreError
          /\ history[a].run_stop > history[a].run_start
          /\ history[b].run_stop > history[b].run_start

\* C10: concurrent runs converge. For two successful runs that overlap in
\* time, whatever the interleaving of their cursor reads, fetches and
\* statement commits, table generation ends as if the two had run one after
\* the other from the store the earlier one found: first the run that
\* fetched first, on the upstream content it saw, then the other.
C10_ConcurrentRunsConverge ==
    \A a, b \in Runs :
        ( /\ a < b
          /\ Done(a) /\ Done(b)
          /\ FuncReturned(a) /\ FuncReturned(b)
          /\ history[b].run_start < history[a].run_stop
          /\ \A c \in Runs \ {a, b} :
                NotYet(c) \/ (Before(c, a) /\ Before(c, b)) ) =>
            LET base == IF run[a].gen0 \subseteq run[b].gen0
                        THEN run[a].gen0 ELSE run[b].gen0
                first == IF run[a].upLen <= run[b].upLen THEN a ELSE b
                second == IF first = a THEN b ELSE a
            IN  generation = SingleRun(SingleRun(base, Up(run[first].upLen)),
                                       Up(run[second].upLen))

\* Two overlapping successful runs: the second read its cursor after the
\* first had committed a statement but not its last, and both wrote rows.
C10_Witness ==
    /\ Done(1) /\ Done(2)
    /\ FuncReturned(1) /\ FuncReturned(2)
    /\ history[2].run_start < history[1].run_stop
    /\ run[1].upLen = run[2].upLen
    /\ Len(run[1].df) > BatchSize(NumCols)
    /\ run[2].last_id > run[1].last_id
    /\ Len(run[2].df) > 0
    /\ generation = SingleRun(run[1].gen0, Up(run[1].upLen))

\* C11: table generation is append/update-only. No step of any run, failed
\* and partially loaded ones included, removes a stored _id: the set of
\* stored _id only grows and the largest stored _id, the cursor of the next
\* run, never decreases.
C11_AppendOnly ==
    [][ /\ {s._id : s \in generation} \subseteq {s._id : s \in generation'}
        /\ LastId(generation') >= LastId(generation) ]_vars

\* A run failed after committing a statement and the other run, from the
\* cursor it left, added rows above it.
C11_Witness ==
    /\ Done(1) /\ Done(2)
    /\ run[1].exc = StoreError
    /\ run[1].i > 0
    /\ FuncReturned(2)
    /\ run[2].last_id = run[1].df[run[1].i]._id
    /\ LastId(generation) > run[2].last_id
    /\ Cardinality(generation) > run[1].i

\* C12: when a multi-batch upsert fails at the statement of batch k, the rows
\* of batches 1..k-1 are committed in the store, no row of batch k or of a
\* later batch is stored by that call (what the store holds under such an _id
\* is what it held when the call began), and the call ends with the exception
\* (checked under LoadSpec for a failure in either call).
C12_PartialBatchFailure ==
    ld.phase = "failed" =>
        LET at_call == IF ld.call = 1 THEN ld.before ELSE ld.after1
            later == {ld.df[j]._id : j \in (ld.i + 1)..Len(ld.df)}
        IN  /\ ld.raised = StoreError
            /\ ld.i % BatchSize(NumCols) = 0
            /\ \A j \in 1..ld.i : ld.df[j] \in generation
            /\ \A s \in generation : s._id \in later => s \in at_call
            /\ \A s \in at_call : s._id \in later => s \in generation

\* The first call failed at its second statement: the first batch inserted a
\* row and overwrote one, the row of the second batch is not in the store.
C12_Witness ==
    /\ ld.phase = "failed"
    /\ ld.call = 1
    /\ ld.i = BatchSize(NumCols)
    /\ \E j \in 1..ld.i : ld.df[j]._id \notin {s._id : s \in ld.before}
    /\ \E j \in 1..ld.i : \E s \in ld.before :
          s._id = ld.df[j]._id /\ s # ld.df[j] /\ ld.df[j] \in generation
    /\ \E j \in (ld.i + 1)..Len(ld.df) :
          ld.df[j]._id \notin {s._id : s \in generation}

\* The rows of batch df with _id id; the greatest DATETIME among them.
RowsOfId(df, id) == {k \in 1..Len(df) : df[k]._id = id}
LatestOf(df, id) == Max({df[k].DATETIME : k \in RowsOfId(df, id)})
\* The rows of batch df with DATETIME t.
RowsAt(df, t) == {k \in 1..Len(df) : df[k].DATETIME = t}
DatetimesOf(df) == {df[k].DATETIME : k \in 1..Len(df)}
RepeatsId(df) == \E k, j \in 1..Len(df) : k # j /\ df[k]._id = df[j]._id
RepeatsDatetime(df) ==
    \E k, j \in 1..Len(df) : k # j /\ df[k].DATETIME = df[j].DATETIME

\* C13 as claimed: for a batch with non-null keys and a repeated _id, the
\* output of _deduplicate has exactly one row for every _id of the input, and
\* that row is an input row with the greatest DATETIME among the rows sharing
\* the _id.
C13_OneRowPerInputId ==
    (tf.pc = "done" /\ RepeatsId(tf.df)) =>
        \A id \in IdsOf(tf.df) :
            /\ Cardinality(RowsOfId(tf.out, id)) = 1
            /\ \A k \in RowsOfId(tf.out, id) :
                  /\ tf.out[k] \in Range(tf.df)
                  /\ tf.out[k].DATETIME = LatestOf(tf.df, id)

\* C13 as amended: the output has at most one row for every _id of the
\* input; it has one exactly when no greater _id has the same greatest
\* DATETIME; and every output row is an input row with the greatest DATETIME
\* among the rows sharing its _id.
C13_LatestRowPerId ==
    (tf.pc = "done" /\ RepeatsId(tf.df)) =>
        /\ \A id \in IdsOf(tf.df) :
              /\ Cardinality(RowsOfId(tf.out, id)) <= 1
              /\ (RowsOfId(tf.out, id) # {}) <=>
                    ~\E other \in IdsOf(tf.df) :
                        /\ other > id
                        /\ LatestOf(tf.df, other) = LatestOf(tf.df, id)
        /\ \A k \in 1..Len(tf.out) :
              /\ tf.out[k] \in Range(tf.df)
              /\ tf.out[k].DATETIME = LatestOf(tf.df, tf.out[k]._id)

\* A batch in which an _id is repeated: its older row is dropped, and
\* another _id leaves the output because a greater _id has its DATETIME.
C13_Witness ==
    /\ tf.pc = "done"
    /\ \E id \in IdsOf(tf.df) : \E k \in RowsOfId(tf.df, id) :
          /\ tf.df[k].DATETIME < LatestOf(tf.df, id)
          /\ tf.df[k] \notin Range(tf.out)
          /\ RowsOfId(tf.out, id) # {}
    /\ \E id \in IdsOf(tf.df) : RowsOfId(tf.out, id) = {}

\* C14 as claimed: for a batch with non-null keys and a repeated DATETIME,
\* the output of _deduplicate has exactly one row for every DATETIME of the
\* input, and that row is an input row with the greatest _id among the rows
\* sharing the DATETIME.
C14_OneRowPerInputDatetime ==
    (tf.pc = "done" /\ RepeatsDatetime(tf.df)) =>
        \A t \in DatetimesOf(tf.df) :
            /\ Cardinality(RowsAt(tf.out, t)) = 1
            /\ \A k \in RowsAt(tf.out, t) :
                  /\ tf.out[k] \in Range(tf.df)
                  /\ tf.out[k]._id = Max({tf.df[j]._id : j \in RowsAt(tf.df, t)})

\* C14 as amended: the output has at most one row for every DATETIME of the
\* input; it has one exactly when the DATETIME is the greatest DATETIME of
\* some _id; and that row is an input row whose _id is the greatest of the
\* _id that have the DATETIME as their greatest.
C14_GreatestIdPerDatetime ==
    (tf.pc = "done" /\ RepeatsDatetime(tf.df)) =>
        \A t \in DatetimesOf(tf.df) :
            LET latestHere == {id \in IdsOf(tf.df) : LatestOf(tf.df, id) = t}
            IN  /\ Cardinality(RowsAt(tf.out, t)) <= 1
                /\ (RowsAt(tf.out, t) # {}) <=> (latestHere # {})
                /\ \A k \in RowsAt(tf.out, t) :
                      /\ tf.out[k] \in Range(tf.df)
                      /\ tf.out[k]._id = Max(latestHere)

\* A batch in which two _id share a DATETIME that is the greatest of both,
\* the greater _id arriving first, and another DATETIME leaves the output.
C14_Witness ==
    /\ tf.pc = "done"
    /\ \E k, j \in 1..Len(tf.df) :
          /\ k < j
          /\ tf.df[k]._id > tf.df[j]._id
          /\ tf.df[k].DATETIME = tf.df[j].DATETIME
          /\ LatestOf(tf.df, tf.df[j]._id) = tf.df[j].DATETIME
          /\ tf.df[k] \in Range(tf.out)
          /\ tf.df[j] \notin Range(tf.out)
    /\ \E t \in DatetimesOf(tf.df) : RowsAt(tf.out, t) = {}

\* |100 * absolute / GENERATION - percentage| <= tolerance, for a row in
\* which the three are numbers and the quotient exists.
WithinTolerance(r, col) ==
    LET a == r[col]
        g == r.GENERATION
        p == r[PercCol(col)]
    IN  /\ a # NULL /\ g # NULL /\ p # NULL
        /\ g # 0
        /\ p < Inf
        /\ 100 * a - g * p <= Tolerance * g
        /\ g * p - 100 * a <= Tolerance * g

\* C15: in every row of the canonical table that transform_records returns,
\* each fuel column satisfies |100 * absolute / GENERATION - percentage| <=
\* tolerance, the rows whose absolute value, GENERATION or percentage was
\* null or zero in the input included.
C15_PercentagesReconciled ==
    (tf.pc = "done" /\ tf.pass = 1) =>
        \A k \in 1..Len(tf.out) : \A col \in FuelCols :
            PercCol(col) \in DOMAIN tf.out[k] =>
                WithinTolerance(tf.out[k], col)

\* C16: transform_records is idempotent on its own output: the canonical
\* rows of transform(x), fed back, give the same rows in the same order with
\* the same value in every column.
C16_TransformIdempotent ==
    (tf.pc = "done" /\ tf.pass = 2) => tf.out = tf.first

\* The records of a sequence of pages, in order.
RECURSIVE Concat(_)
Concat(pages) ==
    IF pages = <<>> THEN <<>>
    ELSE Concat(SubSeq(pages, 1, Len(pages) - 1)) \o pages[Len(pages)]

\* The fetch has ended.
FetchEnded == ft.pc \in {"returned", "raised"}

\* Page k of the fetch is one after which the fetch must stop: it is empty,
\* shorter than batch_size, or brings the accumulated count to max_records.
StopPage(k) ==
    \/ ft.pages[k] = <<>>
    \/ Len(ft.pages[k]) < ft.batch_size
    \/ /\ ft.max_records # NULL
       /\ Len(Concat(SubSeq(ft.pages, 1, k))) >= ft.max_records

\* C17: fetch_neso_data stops issuing page requests exactly when a page is
\* empty, a page is shorter than batch_size, or the accumulated count has
\* reached max_records: the last page of a fetch that returned is such a
\* page and no other page received is. Against an upstream that publishes a
\* finite number of records the fetch ends. A full page followed by an empty
\* page means exactly two page requests, with the cursor at the last _id of
\* page 1 (checked under FairFetchSpec).
C17_FetchStops ==
    /\ [](\A k \in 1..Len(ft.pages) :
             StopPage(k) <=> (ft.pc = "returned" /\ k = Len(ft.pages)))
    /\ [](ft.pc = "returned" => Len(ft.pages) >= 1)
    /\ []((/\ Len(ft.pages) >= 2
           /\ Len(ft.pages[1]) = ft.batch_size
           /\ ft.pages[2] = <<>>) =>
              /\ ft.pc = "returned"
              /\ Len(ft.pages) = 2
              /\ ft.latest_id = ft.pages[1][ft.batch_size]._id
              /\ ft.result = ft.pages[1])
    /\ <>FetchEnded

\* A fetch of two requests: a full page of two records, then an empty page.
C17_Witness ==
    /\ ft.pc = "returned"
    /\ ft.batch_size = 2
    /\ Len(ft.pages) = 2
    /\ Len(ft.pages[1]) = 2
    /\ ft.pages[2] = <<>>
    /\ ft.latest_id = ft.pages[1][2]._id
    /\ ft.last_id > 0

\* C18: fetch is all-or-nothing. When a page request has used up its tries,
\* fetch_neso_data raises: the caller receives no record, whatever earlier
\* pages had accumulated, and the store is as it was. When it returns, the
\* caller receives the records of every page received, in order.
C18_FetchAllOrNothing ==
    /\ ft.tries >= MaxTries =>
          /\ ft.pc = "raised"
          /\ ft.exc # NullMsg
          /\ ft.result = <<>>
    /\ ft.pc = "raised" => (ft.tries >= MaxTries /\ generation = {})
    /\ ft.pc = "returned" =>
          /\ ft.result = Concat(ft.pages)
          /\ ft.exc = NullMsg
          /\ generation = {}

\* The fetch raised at its second page request with the first page
\* accumulated.
C18_Witness ==
    /\ ft.pc = "raised"
    /\ Len(ft.pages) = 1
    /\ Len(ft.all_records) > 0
    /\ ft.result = <<>>

\* C19: a page request is attempted at most 5 times. A failed attempt, by a
\* transport or HTTP error or by a response with success false, is followed
\* by another attempt of the same request while fewer than 5 were made; the
\* result of the first attempt that succeeds is the page the loop receives;
\* the fifth failure in a row raises the error of that attempt and ends the
\* fetch.
C19_BoundedAttempts ==
    /\ [](/\ ft.tries <= MaxTries
          /\ \A k \in 1..Len(ft.attempts) : ft.attempts[k] \in 1..MaxTries
          /\ Len(ft.attempts) = Len(ft.pages)
          /\ (ft.pc = "raised") <=> (ft.tries = MaxTries)
          /\ ft.pc = "raised" => ft.exc \in {TransportError, FetchError})
    /\ [][ft'.tries > ft.tries =>
             /\ ft'.tries = ft.tries + 1
             /\ ft'.pages = ft.pages
             /\ ft'.latest_id = ft.latest_id
             /\ ft'.all_records = ft.all_records
             /\ ft'.pc = IF ft'.tries < MaxTries THEN "request" ELSE "raised"]_vars
    /\ [][Len(ft'.pages) > Len(ft.pages) =>
             /\ \E records \in Responses(upstream, ft.latest_id,
                                          ft.batch_size) :
                   ft'.pages = Append(ft.pages, records)
             /\ ft'.attempts = Append(ft.attempts, ft.tries + 1)
             /\ ft'.tries = 0]_vars

\* A page was received at the fifth attempt, and the next page request
\* failed five times.
C19_Witness ==
    /\ ft.pc = "raised"
    /\ ft.exc = FetchError
    /\ Len(ft.attempts) = 1
    /\ ft.attempts[1] = MaxTries
    /\ ft.tries = MaxTries
    /\ Len(ft.all_records) > 0

\* C20: for a table of n > 0 rows and c columns the Loader issues
\* ceil(n / floor(999 / c)) statements of floor(999 / c) rows, the last one
\* of the rows that remain; no statement binds more than 999 parameters
\* (rows times c); every row of the table is in exactly one statement; and
\* for n = 2000 and c = 20 there are 41 statements of 49 rows (the last of
\* 40).
C20_BatchArithmetic ==
    bt.pc = "done" =>
        LET n == Len(bt.df)
            c == bt.num_cols
            size == CHOOSE b \in 0..SqliteMaxVars :
                        b * c <= SqliteMaxVars /\ (b + 1) * c > SqliteMaxVars
            count == CHOOSE m \in 1..n : (m - 1) * size < n /\ n <= m * size
        IN  /\ Len(bt.stmts) = count
            /\ \A k \in 1..Len(bt.stmts) :
                  /\ Len(bt.stmts[k]) * c <= SqliteMaxVars
                  /\ Len(bt.stmts[k]) >= 1
                  /\ k < Len(bt.stmts) => Len(bt.stmts[k]) = size
            /\ \A row \in 1..n :
                  Cardinality({k \in 1..Len(bt.stmts) :
                                  \E j \in 1..Len(bt.stmts[k]) :
                                      bt.stmts[k][j] = row}) = 1
            /\ (n = 2000 /\ c = 20) =>
                  /\ size = 49
                  /\ Len(bt.stmts) = 41
                  /\ Len(bt.stmts[1]) = 49
                  /\ Len(bt.stmts[41]) = 40

\* The table of 2000 rows and 20 columns has been loaded in 41 statements.
C20_Witness ==
    /\ bt.pc = "done"
    /\ Len(bt.df) = 2000
    /\ bt.num_cols = 20
    /\ Len(bt.stmts) = 41

\* ------------------------------------------------------------------- C21
\* Invocation r ended because the Fetcher or the Transformer raised.
FailedEarly(r) ==
    FuncRaised(r) /\ run[r].exc \in {FetchError, TransformError}
\* No other invocation was at work while r ran.
Alone(r) == \A c \in Runs \ {r} : NotYet(c) \/ Before(c, r)
\* The failed run has executed no statement of the Loader, and the table is
\* the one it read its cursor from.
C21_QuietFailure ==
    \A r \in Runs :
        FailedEarly(r) =>
            /\ run[r].i = 0
            /\ Alone(r) => generation = run[r].gen0
\* A step of the failed run writes nothing but its own Run History row.
C21_OwnRowOnly ==
    \A r \in Runs :
        (run'[r] # run[r] /\ run'[r].exc \in {FetchError, TransformError}) =>
            /\ generation' = generation
            /\ upstream' = upstream
            /\ Len(history') = Len(history)
            /\ \A k \in 1..Len(history) : k # r => history'[k] = history[k]

\* C21: a run in which the Fetcher or the Transformer raises executes no
\* statement of the Loader and leaves table generation as it was when the run
\* read its cursor (no other run at work meanwhile); the steps with which it
\* fails and is finalized change nothing in the store but its own Run History
\* row.
C21_FailedRunLeavesGeneration ==
    [](C21_QuietFailure) /\ [][C21_OwnRowOnly]_vars

\* Run 1 loaded rows; run 2 then fetched new records, its Transformer raised
\* and it was finalized, with the table still as run 1 left it.
C21_Witness ==
    /\ Before(1, 2)
    /\ FuncReturned(1)
    /\ generation # {}
    /\ Done(2)
    /\ run[2].exc = TransformError
    /\ Len(run[2].records) > 0
    /\ history[2].success = 0
    /\ generation = run[2].gen0

\* ------------------------------------------------------------------- C22
\* C22: for every batch with non-null keys, in any arrangement of its rows,
\* every row of the output of _deduplicate is a row of the input, no two
\* output rows share an _id, no two share a DATETIME, the output is in
\* strictly ascending _id order, and the count returned with it is the number
\* of input rows less the number of output rows.
C22_DeduplicateOutput ==
    tf.pc = "done" =>
        /\ Range(tf.out) \subseteq Range(tf.df)
        /\ \A k, j \in 1..Len(tf.out) :
              k < j => /\ tf.out[k]._id < tf.out[j]._id
                       /\ tf.out[k].DATETIME # tf.out[j].DATETIME
        /\ tf.count = Len(tf.df) - Len(tf.out)
        /\ tf.count >= 0

\* Three rows not in _id order: two share an _id, and the survivor of that
\* _id shares its DATETIME with the third; one row is left, two are counted.
C22_Witness ==
    /\ tf.pc = "done"
    /\ Len(tf.df) = 3
    /\ RepeatsId(tf.df)
    /\ tf.df[1]._id > tf.df[3]._id
    /\ Len(tf.out) = 1
    /\ tf.count = 2

\* ------------------------------------------------------------------- C23
\* The percentage columns of the fuel columns that batch df has.
PercColsOf(df) == {PercCol(col) : col \in {c \in FuelCols : PercCol(c) \in Columns(df)}}
\* The absolute value, GENERATION and the stored percentage of row r are
\* numbers and the quotient exists.
Comparable(r, col) ==
    /\ r[col] # NULL /\ r.GENERATION # NULL /\ r[PercCol(col)] # NULL
    /\ r.GENERATION # 0
\* |100 * absolute / GENERATION - percentage| > tolerance, multiplied out.
Exceeds(r, col) ==
    LET lhs == 100 * r[col]
        rhs == r[PercCol(col)] * r.GENERATION
    IN  (IF lhs >= rhs THEN lhs - rhs ELSE rhs - lhs) > Tolerance * r.GENERATION
\* The (row, fuel column) pairs whose percentage the stage replaced.
Replacements ==
    {<<k, col>> \in (1..Len(tf.df)) \X FuelCols :
        /\ PercCol(col) \in Columns(tf.df)
        /\ tf.out[k][PercCol(col)] # tf.df[k][PercCol(col)]}

\* C23: _validate_perc_consistency returns the rows it was given, in their
\* order and with their columns, and changes nothing but percentages of fuel
\* columns the batch has a percentage column for (a fuel column without one
\* is skipped). Where the absolute value, GENERATION and the percentage are
\* numbers and GENERATION is not 0, the percentage becomes
\* 100 * absolute / GENERATION if and only if the two differ by strictly more
\* than the tolerance; where one of the three is null it is left untouched;
\* and the count returned is the number of (row, fuel column) replacements.
\* GENERATION 200, WIND 50, WIND_perc 99 gives WIND_perc 25.
C23_PercReconciliation ==
    tf.pc = "done" =>
        /\ Len(tf.out) = Len(tf.df)
        /\ \A k \in 1..Len(tf.df) :
              /\ DOMAIN tf.out[k] = DOMAIN tf.df[k]
              /\ \A c \in DOMAIN tf.df[k] \ PercColsOf(tf.df) :
                    tf.out[k][c] = tf.df[k][c]
              /\ \A col \in FuelCols :
                    PercCol(col) \in Columns(tf.df) =>
                        LET r == tf.df[k]
                            new == tf.out[k][PercCol(col)]
                        IN  /\ (Comparable(r, col) /\ Exceeds(r, col)) =>
                                  new * r.GENERATION = 100 * r[col]
                            /\ (Comparable(r, col) /\ ~Exceeds(r, col)) =>
                                  new = r[PercCol(col)]
                            /\ (\E c \in {col, "GENERATION", PercCol(col)} :
                                    r[c] = NULL) => new = r[PercCol(col)]
                            /\ (r.GENERATION = 200 /\ r.WIND = 50
                                    /\ r.WIND_perc = 99) =>
                                  tf.out[k].WIND_perc = 25
        /\ tf.count = Cardinality(Replacements)

\* A batch without a SOLAR_perc column: the first row's WIND_perc differs by
\* the tolerance and is kept, the second's differs by more and is replaced.
C23_Witness ==
    /\ tf.pc = "done"
    /\ Len(tf.df) = 2
    /\ "SOLAR_perc" \notin Columns(tf.df)
    /\ tf.df[1].GENERATION = 200 /\ tf.df[1].WIND = 50
    /\ tf.df[1].WIND_perc = 26
    /\ tf.df[2].GENERATION = 200 /\ tf.df[2].WIND = 50
    /\ tf.df[2].WIND_perc = 99
    /\ tf.out[1].WIND_perc = 26
    /\ tf.out[2].WIND_perc = 25
    /\ tf.count = 1

\* ------------------------------------------------------------------- C24
\* The positions of the rows of df whose _id and DATETIME are not null, and
\* the j-th of them.
KeyedRows(df) ==
    {k \in 1..Len(df) : df[k]._id # NULL /\ df[k].DATETIME # NULL}
KeyedRow(df, j) ==
    CHOOSE k \in KeyedRows(df) :
        Cardinality({i \in KeyedRows(df) : i <= k}) = j

\* C24: _validate_missing_values returns exactly the rows of its input whose
\* _id and DATETIME are both non-null, in their input order, each with its
\* null numeric fields replaced by 0.0 and every other value unchanged, and
\* the count it returns is the number of input rows with a null in any
\* column; the canonical table _deduplicate makes of that output has no null
\* in any column.
C24_MissingValues ==
    /\ tf.pc \in {"filled", "done"} =>
          /\ Len(tf.first) = Cardinality(KeyedRows(tf.df))
          /\ \A j \in 1..Len(tf.first) :
                LET r == tf.df[KeyedRow(tf.df, j)]
                IN  /\ DOMAIN tf.first[j] = DOMAIN r
                    /\ \A c \in DOMAIN r :
                          tf.first[j][c] = IF r[c] = NULL THEN 0 ELSE r[c]
          /\ tf.count =
                Cardinality({k \in 1..Len(tf.df) :
                                \E c \in DOMAIN tf.df[k] : tf.df[k][c] = NULL})
    /\ tf.pc = "done" =>
          \A k \in 1..Len(tf.out) : \A c \in DOMAIN tf.out[k] :
              tf.out[k][c] # NULL

\* Two rows: the first has a null DATETIME and is dropped, the second has a
\* null WIND that becomes 0.0 next to its unchanged GENERATION; two rows had
\* a null, and the canonical table is the filled row.
C24_Witness ==
    /\ tf.pc = "done"
    /\ Len(tf.df) = 2
    /\ tf.df[1].DATETIME = NULL /\ tf.df[1]._id # NULL
    /\ tf.df[2]._id # NULL /\ tf.df[2].DATETIME # NULL
    /\ tf.df[2].WIND = NULL /\ tf.df[2].GENERATION = 200
    /\ tf.count = 2
    /\ Len(tf.first) = 1
    /\ tf.first[1].WIND = 0 /\ tf.first[1].GENERATION = 200
    /\ tf.out = tf.first

\* ------------------------------------------------------------------- C25
\* The count of the summary line with the given label, 0 when the summary
\* has no such line.
SummaryCount(label) ==
    IF \E k \in 1..Len(tf.summary) : tf.summary[k][1] = label
    THEN tf.summary[CHOOSE k \in 1..Len(tf.summary) :
                        tf.summary[k][1] = label][2]
    ELSE 0
\* The raw records whose _id is null or whose DATETIME does not parse.
NullKeyRecords ==
    {k \in 1..Len(tf.records) :
        \/ tf.records[k]._id = NULL
        \/ tf.records[k].DATETIME \notin Range(Stamps)}

\* C25: for every non-empty batch the summary's dropped count is the raw
\* count less the valid count, the raw count is the number of records given
\* and the valid count the number of rows returned, and the dropped count is
\* the number of records with a null _id or DATETIME plus the count of the
\* duplicate line; when a record has a null key, the summary has the
\* missing-data line with a count of at least the number of such records.
C25_NoRowLostUnaccounted ==
    (tf.pc = "done" /\ tf.records # <<>>) =>
        /\ SummaryCount("Total raw records") = Len(tf.records)
        /\ SummaryCount("Valid cleaned records") = Len(tf.out)
        /\ SummaryCount("Dropped / invalid records")
              = SummaryCount("Total raw records")
                    - SummaryCount("Valid cleaned records")
        /\ SummaryCount("Dropped / invalid records")
              = Cardinality(NullKeyRecords)
                    + SummaryCount("Duplicate/overlapping rows")
        /\ NullKeyRecords # {} =>
              /\ \E k \in 1..Len(tf.summary) :
                    tf.summary[k][1] = "Rows with missing data"
              /\ SummaryCount("Rows with missing data")
                    >= Cardinality(NullKeyRecords)

\* Three records: one with an unparseable DATETIME, two sharing an _id, one
\* of them with a null WIND and one with an inconsistent percentage. One row
\* is valid, two are dropped: one for its key, one as a duplicate; the
\* missing-data line counts two rows.
C25_Witness ==
    /\ tf.pc = "done"
    /\ Len(tf.records) = 3
    /\ Cardinality(NullKeyRecords) = 1
    /\ Len(tf.out) = 1
    /\ SummaryCount("Dropped / invalid records") = 2
    /\ SummaryCount("Duplicate/overlapping rows") = 1
    /\ SummaryCount("Rows with missing data") = 2
    /\ SummaryCount("Inconsistent mix % ") = 1

\* ------------------------------------------------------------------- C26
\* The cursor after page k was processed.
CursorAfter(k) ==
    IF k < Len(ft.cursors) THEN ft.cursors[k + 1] ELSE ft.latest_id
\* Every page received so far holds only records with _id above the cursor
\* it was requested with, in ascending _id order.
WellFormedPages ==
    \A k \in 1..Len(ft.pages) :
        LET page == ft.pages[k]
        IN  /\ \A i \in 1..Len(page) : page[i]._id > ft.cursors[k]
            /\ \A i, j \in 1..Len(page) : i < j => page[i]._id < page[j]._id

\* C26: while every page received is well-formed, the cursor after each
\* non-empty page is greater than the cursor the page was requested with and
\* is the greatest _id of the records received so far (an empty page leaves
\* it alone); and the sequence returned is in strictly ascending _id order,
\* holds only _id greater than last_id, and holds each upstream record with
\* an _id above last_id and up to the last one returned exactly once.
C26_CursorMonotone ==
    (WellFormedPages /\ ft.pc # "off") =>
        /\ Len(ft.cursors) = Len(ft.pages)
        /\ \A k \in 1..Len(ft.pages) :
              IF ft.pages[k] = <<>>
              THEN CursorAfter(k) = ft.cursors[k]
              ELSE /\ CursorAfter(k) > ft.cursors[k]
                   /\ CursorAfter(k) =
                         Max(IdsOf(Concat(SubSeq(ft.pages, 1, k))))
        /\ ft.pc = "returned" =>
              LET res == ft.result
              IN  /\ \A i, j \in 1..Len(res) : i < j => res[i]._id < res[j]._id
                  /\ \A i \in 1..Len(res) : res[i]._id > ft.last_id
                  /\ \A u \in 1..Len(upstream) :
                        ( /\ res # <<>>
                          /\ upstream[u]._id > ft.last_id
                          /\ upstream[u]._id <= res[Len(res)]._id ) =>
                            Cardinality({i \in 1..Len(res) :
                                            res[i] = upstream[u]}) = 1

\* A fetch from cursor 1 that received a full page and a short one, both in
\* ascending order, and returned records 2 to 4 of the upstream.
C26_Witness ==
    /\ ft.pc = "returned"
    /\ WellFormedPages
    /\ ft.last_id = 1
    /\ ft.batch_size = 2
    /\ Len(ft.pages) = 2
    /\ ft.cursors = <<1, 3>>
    /\ ft.latest_id = 4
    /\ Len(ft.result) = 3
    /\ ft.result[1]._id = 2
    /\ ft.result[3]._id = 4

\* ------------------------------------------------------------------- C27
\* The _id stored in a table.
StoredIds(table) == {s._id : s \in table}
\* The rows run r hands to the store in a step that executes a statement.
Written(r) ==
    {run[r].df[k] : k \in {j \in 1..Len(run[r].df) :
                              run[r].i < j /\ j <= run'[r].i}}
\* What holds of a run that has read its cursor.
C27_CursorBelowRows ==
    \A r \in Runs :
        ~NotYet(r) =>
            /\ run[r].last_id =
                  IF run[r].gen0 = {} THEN 0 ELSE Max(StoredIds(run[r].gen0))
            /\ \A k \in 1..Len(run[r].df) : run[r].df[k]._id > run[r].last_id
            /\ Alone(r) =>
                  /\ run[r].gen0 \subseteq generation
                  /\ generation \ run[r].gen0 \subseteq Range(run[r].df)
\* What holds of a step in which a run executes a statement.
C27_InsertOnly ==
    \A r \in Runs :
        (run[r].pc = "load" /\ run'[r].i > run[r].i) =>
            /\ \A row \in Written(r) : row._id \notin StoredIds(run[r].gen0)
            /\ (\E row \in Written(r) : row._id \in StoredIds(generation)) =>
                  ~Alone(r)

\* C27: the cursor of a run is the greatest _id of the table it read it from
\* (0 for an empty table) and every row the run upserts has a greater _id.
\* When no other run is at work during the run, the rows stored before stay
\* as they are and the table grows by rows of the run only: each statement
\* inserts. A statement writes a row under an _id that is already stored only
\* when another run overlapped, and that _id was committed after the cursor
\* was read.
C27_SequentialRunsInsertOnly ==
    [](C27_CursorBelowRows) /\ [][C27_InsertOnly]_vars

\* Overlapping runs: run 2 read its cursor from the empty table, run 1 then
\* committed a row, and run 2 has executed a statement with a row of that
\* _id.
C27_Witness ==
    /\ run[1].i > 0
    /\ run[2].i > 0
    /\ run[2].gen0 = {}
    /\ run[2].last_id = 0
    /\ \E k \in 1..run[1].i, j \in 1..run[2].i :
          k <= Len(run[1].df) /\ j <= Len(run[2].df)
              /\ run[1].df[k]._id = run[2].df[j]._id
    /\ ~Before(1, 2)
    /\ ~Before(2, 1)

\* ------------------------------------------------------------------- C28
\* Run b is the run that follows successful run a, it has fetched, and the
\* upstream held the same records at both fetches; no other run was at work.
FollowsUnchanged(a, b) ==
    /\ Before(a, b)
    /\ FuncReturned(a)
    /\ "fetch" \in run[b].calls
    /\ run[b].exc # FetchError
    /\ run[b].upLen = run[a].upLen
    /\ \A c \in Runs \ {a, b} : NotYet(c)

\* C28: when the upstream does not change, the run that follows a successful
\* run fetches no record, records total_fetched 0 and leaves table generation
\* as the successful run left it, whatever the upstream holds, records the
\* Transformer drops included.
C28_FixedPoint ==
    \A a, b \in Runs :
        FollowsUnchanged(a, b) =>
            /\ run[b].records = <<>>
            /\ Done(b) =>
                  /\ history[b].total_fetched = 0
                  /\ generation = run[b].gen0

\* ------------------------------------------------------------------- C29
\* What holds once a run with no other run at work is finalized as a success.
C29_RowMatchesTable ==
    \A r \in Runs :
        (Done(r) /\ history[r].success = 1 /\ Alone(r)) =>
            /\ Range(run[r].df) \subseteq generation
            /\ Cardinality(generation) =
                  Cardinality(run[r].gen0) + history[r].valid_records
            /\ history[r].last_fetched_id =
                  IF generation = {} THEN 0 ELSE Max(StoredIds(generation))
\* A step that changes table generation is a statement of a run whose start
\* row is committed and whose finalization is still to come.
C29_CommitsInsideRun ==
    generation' # generation =>
        \E r \in Runs :
            /\ run'[r].i > run[r].i
            /\ r <= Len(history)
            /\ history'[r] = history[r]
            /\ ~Done(r)
            /\ run'[r].pc # "done"

\* C29: in sequential execution, when the Run History row of a run is
\* finalized with success true, every canonical row of the run is stored in
\* table generation, the table has valid_records more rows than the run
\* found, and last_fetched_id is the table's greatest _id (0 for an empty
\* table); and every commit to table generation is made by a run after the
\* commit of its start row and before its finalization.
C29_HistoryMatchesGeneration ==
    [](C29_RowMatchesTable) /\ [][C29_CommitsInsideRun]_vars

\* Run 1 stored a row; run 2 followed it, fetched from its cursor more
\* records than were valid and stored the valid ones; both rows say so.
C29_Witness ==
    /\ Before(1, 2)
    /\ Done(2)
    /\ history[1].success = 1
    /\ history[2].success = 1
    /\ run[2].last_id > 0
    /\ history[2].valid_records > 0
    /\ history[2].total_fetched > history[2].valid_records
    /\ Cardinality(generation) =
          history[1].valid_records + history[2].valid_records
    /\ history[2].last_fetched_id = Max(StoredIds(generation))

\* ------------------------------------------------------------------- C30
\* A call of load_generation_data made now would return the cached table.
CacheHit ==
    /\ dash.pc = "idle"
    /\ ~( \/ ~dash.has
          \/ dash.data_version #
                (IF generation = {} THEN NULL ELSE Max(StoredIds(generation))) )

\* C30: the cached table is queried again exactly when the session holds
\* none or the greatest stored _id differs from the cached version, and so a
\* call of load_generation_data made in any reachable state, whatever runs
\* have been at work, returns the rows table generation holds at that
\* moment: a call never fails, and when it answers from the cache the cache
\* equals the table.
C30_CacheEqualsStore ==
    /\ dash.pc # "raised"
    /\ dash.pc = "load" =>
          ( \/ ~dash.has
            \/ dash.data_version # dash.new )
    /\ CacheHit => dash.gen_df = generation

====
